---- MODULE Spec2Model ----
(***************************************************************************)
(* particle-cosmos: the particle field / mode blender of main.ts and the   *)
(* AmbientSound engine of audio.ts.                                        *)
(*                                                                         *)
(* Number representation                                                   *)
(*   modeBlend   an IEEE-754 double in [0,1], kept exactly as three 20-bit *)
(*               limbs <<hi, mid, lo>> of the integer value * 2^60; sums   *)
(*               are rounded to 53 significant bits, nearest-even.         *)
(*   positions, velocities, damping, drift, centerPull, swirl   1e-6       *)
(*   distances inside a force term, equilibrium, depthRange,               *)
(*   mouseForce                                                 1e-2       *)
(*   hue, saturation, lightness, rgb, size, alpha, Math.random  1e-3       *)
(*   dt                                                         1e-3 s     *)
(*   audio frequencies 0.1 Hz, audio clock 1 s                             *)
(***************************************************************************)
EXTENDS Integers, Sequences, FiniteSets, TLC

VARIABLES
    currentMode,    \* main.ts: settled mode index
    targetMode,     \* main.ts: target mode index
    modeBlend,      \* main.ts: blend fraction (a double, as limbs)
    colorOverride,  \* main.ts: NoOverride or a hue
    mouseDown, mouseActive, repelling, mouseWorld,
    positions, velocities, colors, sizes, alphas, targetColors, targetSizes,
    soundDesired,   \* main.ts: the UI's desired-sound flag
    audio,          \* AmbientSound: ctx, _enabled, currentMode, drones, gains
    audioClock,     \* ctx.currentTime
    cues,           \* one-shot cues scheduled so far, by kind
    frameDt,        \* the host's frame interval handed to updateParticles
    grid,           \* the grid the velocities are counted on: "micro" or "ulp"
    threw,          \* an uncaught TypeError escaped a handler
    sampledHSL,     \* observer: the h, s, l last given to setHSL for each target
    lastOp,         \* observer: the handler that ran last, its argument and result
    flight,         \* observer: what started the blend in flight, and its ticks
    nOps            \* observer: user events so far

blendVars == <<currentMode, targetMode, modeBlend>>
mouseVars == <<mouseDown, mouseActive, repelling, mouseWorld>>
fieldVars == <<positions, velocities>>
lookVars == <<colors, sizes, alphas>>
targetVars == <<targetColors, targetSizes, sampledHSL>>
soundVars == <<audio, audioClock, cues>>
hostVars == <<frameDt, grid>>

vars == <<currentMode, targetMode, modeBlend, colorOverride, mouseDown,
          mouseActive, repelling, mouseWorld, positions, velocities, colors,
          sizes, alphas, targetColors, targetSizes, soundDesired, audio,
          audioClock, cues, frameDt, grid, threw, sampledHSL, lastOp, flight,
          nOps>>

-----------------------------------------------------------------------------
(* Bounds of the exploration *)

COUNT == 1          \* particles in the field
MaxOps == 2         \* user events in one behaviour
MaxFieldTicks == 2  \* ticks explored with free random draws
MaxSoundOps == 4    \* user events in one behaviour of the sound engine
MaxClock == 4       \* audio clock horizon, seconds
MaxPullSteps == 4   \* steps explored from the centre-pull scenario

-----------------------------------------------------------------------------
(* Integer helpers *)

Abs(a) == IF a < 0 THEN -a ELSE a
Min(a, b) == IF a < b THEN a ELSE b
Max(a, b) == IF a > b THEN a ELSE b
Sign(a) == IF a < 0 THEN -1 ELSE IF a > 0 THEN 1 ELSE 0

\* division truncating toward zero, as the sign-symmetric float quotient does
TDiv(a, b) == Sign(a) * Sign(b) * (Abs(a) \div Abs(b))

\* a * b / c without leaving 32 bits, a >= 0, b * c < 2^31
MulDiv(a, b, c) == (a \div c) * b + ((a % c) * b) \div c

\* signed a * b / c
SMulDiv(a, b, c) == Sign(a) * Sign(b) * MulDiv(Abs(a), Abs(b), c)

RECURSIVE SqrtBits(_, _, _)
\* floor(sqrt(n)) by bisection on [lo, hi)
SqrtBits(n, lo, hi) ==
    IF hi - lo <= 1 THEN lo
    ELSE LET mid == (lo + hi) \div 2
         IN IF mid * mid <= n THEN SqrtBits(n, mid, hi) ELSE SqrtBits(n, lo, mid)

Sqrt(n) == SqrtBits(n, 0, 46341)

RECURSIVE Log2(_)
Log2(n) == IF n <= 1 THEN 0 ELSE 1 + Log2(n \div 2)

-----------------------------------------------------------------------------
(* IEEE-754 doubles in [0, 2): value = (hi * 2^40 + mid * 2^20 + lo) / 2^60 *)

Limb == 2^20

DZero == <<0, 0, 0>>
DOne == <<Limb, 0, 0>>
DHalf == <<Limb \div 2, 0, 0>>

DLess(a, b) ==
    \/ a[1] < b[1]
    \/ a[1] = b[1] /\ a[2] < b[2]
    \/ a[1] = b[1] /\ a[2] = b[2] /\ a[3] < b[3]

DLeq(a, b) == a = b \/ DLess(a, b)

\* the exact sum
DAddExact(a, b) ==
    LET lo == a[3] + b[3]
        mid == a[2] + b[2] + lo \div Limb
        hi == a[1] + b[1] + mid \div Limb
    IN <<hi, mid % Limb, lo % Limb>>

\* position of the leading bit of x # 0
TopBit(x) ==
    IF x[1] > 0 THEN 40 + Log2(x[1])
    ELSE IF x[2] > 0 THEN 20 + Log2(x[2])
    ELSE Log2(x[3])

\* round to 53 significant bits, ties to even
DRound(x) ==
    IF x = DZero \/ TopBit(x) <= 52 THEN x
    ELSE LET q == 2^(TopBit(x) - 52)
             r == x[3] % q
             down == <<x[1], x[2], x[3] - r>>
             odd == ((x[3] - r) \div q) % 2 = 1
         IN IF 2 * r > q \/ (2 * r = q /\ odd)
            THEN DAddExact(down, <<0, 0, q>>)
            ELSE down

\* a + b as the double addition computes it
DAdd(a, b) == DRound(DAddExact(a, b))

DMin(a, b) == IF DLess(b, a) THEN b ELSE a

\* the fraction in 1/1024 steps, for the fixed-point force parameters
Frac10(t) == t[1] \div 1024

-----------------------------------------------------------------------------
(* Host frame intervals: dt = Math.min((now - lastTime) / 1000, 0.05) *)

Dts == {25, 50}

\* clamp of animate()
ClampDt(ms) == Min(ms, 50)

\* the double dt * 0.5 for dt = ms / 1000
HalfStep(ms) ==
    CASE ms = 50 -> <<26214, 419430, 419432>>
      [] ms = 25 -> <<13107, 209715, 209716>>

RECURSIVE ExactTicksFrom(_, _, _)
ExactTicksFrom(acc, s, n) ==
    IF DLeq(DOne, acc) THEN n ELSE ExactTicksFrom(DAddExact(acc, s), s, n + 1)

\* ceil(2 / dt) in exact arithmetic: the least n with n * (dt * 0.5) >= 1
CeilTwoOverDt == [ms \in Dts |-> ExactTicksFrom(DZero, HalfStep(ms), 0)]

-----------------------------------------------------------------------------
(* Mode presets *)

BOUNDS == 40000000
DEFAULT_MODE == 4

ModeTable == <<
    [name |-> "nebula", hueRange |-> <<580, 820>>, satRange |-> <<500, 1000>>,
     lightRange |-> <<300, 750>>, damping |-> 988000, mouseForce |-> 1200,
     drift |-> 20000, centerPull |-> 800, equilibrium |-> 1200, swirl |-> 0,
     sizeRange |-> <<400, 2800>>, bloom |-> 1500, depthRange |-> 2500],
    [name |-> "solar", hueRange |-> <<0, 100>>, satRange |-> <<700, 1000>>,
     lightRange |-> <<450, 900>>, damping |-> 982000, mouseForce |-> 1800,
     drift |-> 40000, centerPull |-> 2000, equilibrium |-> 800, swirl |-> 0,
     sizeRange |-> <<300, 3500>>, bloom |-> 2200, depthRange |-> 1800],
    [name |-> "aurora", hueRange |-> <<280, 520>>, satRange |-> <<600, 1000>>,
     lightRange |-> <<300, 700>>, damping |-> 993000, mouseForce |-> 600,
     drift |-> 12000, centerPull |-> 400, equilibrium |-> 1500, swirl |-> 2000,
     sizeRange |-> <<300, 2200>>, bloom |-> 1200, depthRange |-> 3000],
    [name |-> "vortex", hueRange |-> <<0, 1000>>, satRange |-> <<800, 1000>>,
     lightRange |-> <<400, 700>>, damping |-> 984000, mouseForce |-> 1000,
     drift |-> 10000, centerPull |-> 3000, equilibrium |-> 1000, swirl |-> 20000,
     sizeRange |-> <<200, 2000>>, bloom |-> 1800, depthRange |-> 1200],
    [name |-> "void", hueRange |-> <<550, 680>>, satRange |-> <<30, 150>>,
     lightRange |-> <<500, 950>>, damping |-> 996000, mouseForce |-> 400,
     drift |-> 5000, centerPull |-> 200, equilibrium |-> 1800, swirl |-> 0,
     sizeRange |-> <<150, 1200>>, bloom |-> 2800, depthRange |-> 4000] >>

ModeIndex == 0 .. (Len(ModeTable) - 1)

MODES == [i \in ModeIndex |-> ModeTable[i + 1]]

\* parseInt of a missing or malformed data-mode attribute
NaN == -1000

NoOverride == -1

-----------------------------------------------------------------------------
(* Math.random(): a draw is the value returned, in 1/1000 *)

RandSet == {0, 500, 999}

\* the draw that leaves every centred term (Math.random() - 0.5) at zero
Centre == 500

\* a + Math.random() * (b - a) for the range <<a, b>>
Sample(range, u) == range[1] + TDiv(u * (range[2] - range[1]), 1000)

-----------------------------------------------------------------------------
(* THREE.Color.setHSL *)

\* euclideanModulo(h, 1)
EuclideanModulo(h) == h % 1000

Clamp01(x) == Max(0, Min(1000, x))

Hue2rgb(p, q, t0) ==
    LET t == IF t0 < 0 THEN t0 + 1000 ELSE IF t0 > 1000 THEN t0 - 1000 ELSE t0
    IN IF 6 * t < 1000 THEN p + TDiv((q - p) * 6 * t, 1000)
       ELSE IF 2 * t < 1000 THEN q
       ELSE IF 3 * t < 2000 THEN p + TDiv((q - p) * 2 * (2000 - 3 * t), 1000)
       ELSE p

\* the r, g, b that setHSL(h, s, l) leaves in tmpColor
SetHSL(h0, s0, l0) ==
    LET h == EuclideanModulo(h0)
        s == Clamp01(s0)
        l == Clamp01(l0)
        p == IF l <= 500 THEN TDiv(l * (1000 + s), 1000) ELSE l + s - TDiv(l * s, 1000)
        q == 2 * l - p
    IN IF s = 0 THEN <<l, l, l>>
       ELSE <<Hue2rgb(q, p, h + 333), Hue2rgb(q, p, h), Hue2rgb(q, p, h - 333)>>

-----------------------------------------------------------------------------
(* Colour ranges under the override *)

GetHueRangeWide(m, override) ==
    IF override = NoOverride THEN m.hueRange
    ELSE <<override - 600, override + 600>>

GetHueRange(m, override) ==
    IF override = NoOverride THEN m.hueRange
    ELSE <<override - 60, override + 60>>

GetSatRange(m, override) ==
    IF override = NoOverride THEN m.satRange
    ELSE <<Max(m.satRange[1], 500), Max(m.satRange[2], 900)>>

\* the h, s, l sampled for one particle; d = <<hue, sat, light, size>> draws
SampleHSL(m, override, d) ==
    << Sample(GetHueRange(m, override), d[1]),
       Sample(GetSatRange(m, override), d[2]),
       Sample(m.lightRange, d[3]) >>

\* what setHSL keeps of a sampled triple: hue wrapped, s and l clamped
Normalised(hsl) == <<EuclideanModulo(hsl[1]), Clamp01(hsl[2]), Clamp01(hsl[3])>>

Particles == 1 .. COUNT

\* draws that sample all four quantities of a particle alike
Draws4(S) == {<<u, u, u, u>> : u \in S}

-----------------------------------------------------------------------------
(* randomizeParticle: d = [theta, phi, r, z, vx, vy, vz, look, alpha] draws *)

\* cos and sin of theta = 2 pi u at the quarter turns
CosTheta(u) == CASE u = 0 -> 1000 [] u = 250 -> 0 [] u = 500 -> -1000 [] u = 750 -> 0
SinTheta(u) == CASE u = 0 -> 0 [] u = 250 -> 1000 [] u = 500 -> 0 [] u = 750 -> -1000

\* sin(acos(2u - 1))
SinPhi(u) == Sqrt(1000000 - (2 * u - 1000) * (2 * u - 1000))

\* Math.pow(u, 0.6)
Pow06(u) == CASE u = 0 -> 0 [] u = 500 -> 660 [] u = 999 -> 999

RandomPosition(m, d) ==
    LET r == Pow06(d.r) * (BOUNDS \div 1000)
        rs == SMulDiv(r, SinPhi(d.phi), 1000)
    IN << SMulDiv(rs, CosTheta(d.theta), 1000),
          SMulDiv(rs, SinTheta(d.theta), 1000),
          (d.z - 500) * m.depthRange * 20 >>

RandomVelocity(d) ==
    << (d.vx - 500) * 300, (d.vy - 500) * 300, (d.vz - 500) * 100 >>

-----------------------------------------------------------------------------
(* JavaScript comparisons with NaN: every one of them is false *)

JsLt(a, b) == a # NaN /\ b # NaN /\ a < b
JsGe(a, b) == a # NaN /\ b # NaN /\ a >= b
JsEq(a, b) == a # NaN /\ b # NaN /\ a = b

\* MODES[i] is undefined
Undefined(i) == i \notin ModeIndex

AtRest(blend) == DLeq(DOne, blend)

\* the observer's record of a handler run: its name, argument, whether it called
\* audio.toggle(), what that returned, the blend state it started from, and the
\* blend state the latest tick started from
Op(name, arg, toggled, ret) ==
    [op |-> name, arg |-> arg, toggled |-> toggled, ret |-> ret,
     was |-> [current |-> currentMode, target |-> targetMode, blend |-> modeBlend],
     handed |-> IF name = "tick"
                THEN [current |-> currentMode, target |-> targetMode,
                      blend |-> modeBlend]
                ELSE lastOp.handed]

-----------------------------------------------------------------------------
(* AmbientSound *)

MODE_FREQS == <<
    <<654, 980, 1648>>,
    <<734, 1100, 1850>>,
    <<824, 1235, 2077>>,
    <<925, 1386, 2331>>,
    <<550, 824, 1235>> >>

\* the 3 seconds of the retune ramp
RampLen == 3

NoCues == [sweep |-> 0, burst |-> 0, chime |-> 0]

\* An AudioParam is [value, events]: events are the automation points
\* <<time, value>> in time order, the value running linearly between them.

\* param.linearRampToValueAtTime(v, tEnd), called at time now. With no event
\* before it the ramp starts from the current value at the time of the call.
LinearRampToValueAtTime(param, v, tEnd, now) ==
    IF param.events = << >>
    THEN [param EXCEPT !.events = << <<now, param.value>>, <<tEnd, v>> >>]
    ELSE [param EXCEPT !.events = Append(param.events, <<tEnd, v>>)]

\* the value at t >= ev[k][1], walking the points from the k-th on
RECURSIVE ValueFrom(_, _, _)
ValueFrom(ev, k, t) ==
    IF k = Len(ev) THEN ev[k][2]
    ELSE IF ev[k + 1][1] <= t THEN ValueFrom(ev, k + 1, t)
    ELSE ev[k][2] + TDiv((ev[k + 1][2] - ev[k][2]) * (t - ev[k][1]),
                         ev[k + 1][1] - ev[k][1])

\* the value of the parameter at time t
ValueAt(param, t) ==
    IF param.events = << >> \/ t < param.events[1][1] THEN param.value
    ELSE ValueFrom(param.events, 1, t)

\* the value the parameter is at, or is scheduled to end at
FinalValue(param) ==
    IF param.events = << >> THEN param.value
    ELSE param.events[Len(param.events)][2]

NewAudio ==
    [ctx |-> FALSE, enabled |-> FALSE, currentMode |-> 4, drones |-> << >>,
     master |-> 0, sfxGain |-> 0,
     \* observers: init() calls so far; the time of the last retune and the
     \* frequency each voice sounded at when it was requested
     builds |-> 0, retune |-> [at |-> -1, to |-> 4, prior |-> << >>]]

\* AmbientSound.init at time now. Assigning frequency.value also records the
\* value as an automation point at the time of the assignment.
AudioInit(a, modeIndex, now) ==
    [a EXCEPT !.ctx = TRUE,
              !.master = 80,
              !.sfxGain = 500,
              !.drones = a.drones \o
                  [i \in 1 .. 3 |->
                      [value |-> MODE_FREQS[modeIndex + 1][i],
                       events |-> << <<now, MODE_FREQS[modeIndex + 1][i]>> >>]],
              !.builds = a.builds + 1,
              !.enabled = TRUE]

AudioToggleRebuilding(a, now) ==
    IF ~a.enabled THEN AudioInit(a, a.currentMode, now)
    ELSE [a EXCEPT !.enabled = FALSE, !.master = 0, !.sfxGain = 0]

\* AmbientSound.toggle at time now: the engine after the call
AudioToggle(a, now) ==
    IF ~a.ctx THEN AudioInit(a, a.currentMode, now)
    ELSE [a EXCEPT !.enabled = ~a.enabled,
                   !.master = IF ~a.enabled THEN 80 ELSE 0,
                   !.sfxGain = IF ~a.enabled THEN 500 ELSE 0]

AudioSetModeLate(a, c, now, index) ==
    IF ~a.ctx \/ ~a.enabled THEN [audio |-> a, cues |-> c]
    ELSE [audio |->
             [a EXCEPT !.currentMode = index,
                       !.drones =
                 [i \in 1 .. Len(a.drones) |->
                     LinearRampToValueAtTime(a.drones[i],
                         MODE_FREQS[index + 1][i], now + RampLen, now)],
                       !.retune =
                 [at |-> now, to |-> index,
                  prior |-> [i \in 1 .. Len(a.drones) |->
                                ValueAt(a.drones[i], now)]]],
          cues |-> [c EXCEPT !.sweep = @ + 1]]

\* AmbientSound.setMode: the engine and the cues after the call
AudioSetMode(a, c, now, index) ==
    LET a1 == [a EXCEPT !.currentMode = index]
    IN IF ~a.ctx \/ ~a.enabled THEN [audio |-> a1, cues |-> c]
       ELSE [audio |->
                [a1 EXCEPT !.drones =
                    [i \in 1 .. Len(a.drones) |->
                        LinearRampToValueAtTime(a.drones[i],
                            MODE_FREQS[index + 1][i], now + RampLen, now)],
                           !.retune =
                    [at |-> now, to |-> index,
                     prior |-> [i \in 1 .. Len(a.drones) |->
                                   ValueAt(a.drones[i], now)]]],
             cues |-> [c EXCEPT !.sweep = @ + 1]]

AudioTriggerBurstUnguarded(a, c) == [c EXCEPT !.burst = @ + 1]

\* AmbientSound.triggerBurst
AudioTriggerBurst(a, c) ==
    IF ~a.ctx \/ ~a.enabled THEN c ELSE [c EXCEPT !.burst = @ + 1]

\* AmbientSound.triggerColorChange
AudioTriggerColorChange(a, c) ==
    IF ~a.ctx \/ ~a.enabled THEN c ELSE [c EXCEPT !.chime = @ + 1]

-----------------------------------------------------------------------------
(* Mode blender *)

\* precomputeTargets(m): td[i] are the draws of particle i
PrecomputeTargets(m, td) ==
    /\ sampledHSL' = [i \in Particles |-> SampleHSL(m, colorOverride', td[i])]
    /\ targetColors' = [i \in Particles |->
           LET hsl == SampleHSL(m, colorOverride', td[i])
           IN SetHSL(hsl[1], hsl[2], hsl[3])]
    /\ targetSizes' = [i \in Particles |-> Sample(m.sizeRange, td[i][4])]

\* index < 0 || index >= MODES.length
OutOfRange(index) == JsLt(index, 0) \/ JsGe(index, Len(ModeTable))

IsNoOpNever(index) == FALSE

IsNoOpWhenSettled(index) == JsEq(index, currentMode)

\* index === currentMode && modeBlend >= 1
IsNoOp(index) == JsEq(index, currentMode) /\ AtRest(modeBlend)

SetModeInstant(index, td) ==
    /\ lastOp' = Op("setMode", index, FALSE, FALSE)
    /\ nOps' = nOps + 1
    /\ UNCHANGED <<colorOverride, mouseVars, fieldVars, lookVars, soundDesired,
                   audioClock, hostVars>>
    /\ IF OutOfRange(index) \/ IsNoOp(index) \/ Undefined(index)
       THEN UNCHANGED <<currentMode, targetMode, modeBlend, targetVars, audio,
                        cues, threw, flight>>
       ELSE /\ currentMode' = index
            /\ targetMode' = index
            /\ modeBlend' = DZero
            /\ PrecomputeTargets(MODES[index], td)
            /\ audio' = AudioSetMode(audio, cues, audioClock, index).audio
            /\ cues' = AudioSetMode(audio, cues, audioClock, index).cues
            /\ flight' = [by |-> "setMode", ticks |-> 0]
            /\ UNCHANGED threw

\* setMode(index)
SetMode(index, td) ==
    /\ lastOp' = Op("setMode", index, FALSE, FALSE)
    /\ nOps' = nOps + 1
    /\ UNCHANGED <<colorOverride, mouseVars, fieldVars, lookVars, soundDesired,
                   audioClock, hostVars, currentMode>>
    /\ IF OutOfRange(index)
       THEN UNCHANGED <<targetMode, modeBlend, targetVars, audio, cues, threw, flight>>
       ELSE IF IsNoOp(index)
       THEN UNCHANGED <<targetMode, modeBlend, targetVars, audio, cues, threw, flight>>
       ELSE /\ targetMode' = index
            /\ modeBlend' = DZero
            /\ IF Undefined(index)
               THEN \* precomputeTargets reads a field of undefined
                    /\ threw' = TRUE
                    /\ flight' = [by |-> "undefined", ticks |-> 0]
                    /\ UNCHANGED <<targetVars, audio, cues>>
               ELSE /\ PrecomputeTargets(MODES[index], td)
                    /\ audio' = AudioSetMode(audio, cues, audioClock, index).audio
                    /\ cues' = AudioSetMode(audio, cues, audioClock, index).cues
                    /\ flight' = [by |-> "setMode", ticks |-> 0]
                    /\ UNCHANGED threw

ForcedTargetDefault == DEFAULT_MODE

\* targetMode = currentMode, of the forced re-blend
ForcedTarget == currentMode

\* modeBlend = 0.5, of the forced re-blend
ForcedBlend == DHalf

\* triggerColorTransition(), after the click handler stored the override
TriggerColorTransition(override, td) ==
    LET index == IF AtRest(modeBlend) THEN currentMode ELSE targetMode
    IN /\ colorOverride' = override
       /\ lastOp' = Op("recolor", override, FALSE, FALSE)
       /\ nOps' = nOps + 1
       /\ UNCHANGED <<mouseVars, fieldVars, lookVars, soundDesired, audioClock,
                      hostVars, currentMode, audio>>
       /\ IF Undefined(index)
          THEN /\ threw' = TRUE
               /\ UNCHANGED <<targetMode, modeBlend, targetVars, cues, flight>>
          ELSE /\ PrecomputeTargets(MODES[index], td)
               /\ IF AtRest(modeBlend)
                  THEN /\ modeBlend' = ForcedBlend
                       /\ targetMode' = ForcedTarget
                       /\ flight' = [by |-> "recolor", ticks |-> 0]
                  ELSE UNCHANGED <<modeBlend, targetMode, flight>>
               /\ cues' = AudioTriggerColorChange(audio, cues)
               /\ UNCHANGED threw

lerp(a, b, t) == a + TDiv((b - a) * Frac10(t), 1024)

\* getActiveMode() for a blend state whose modes are defined
GetActiveMode(cur, tgt, blend) ==
    IF AtRest(blend) THEN MODES[cur]
    ELSE LET a == MODES[cur]
             b == MODES[tgt]
         IN [name |-> b.name, hueRange |-> b.hueRange, satRange |-> b.satRange,
             lightRange |-> b.lightRange, sizeRange |-> b.sizeRange,
             damping |-> lerp(a.damping, b.damping, blend),
             mouseForce |-> lerp(a.mouseForce, b.mouseForce, blend),
             drift |-> lerp(a.drift, b.drift, blend),
             centerPull |-> lerp(a.centerPull, b.centerPull, blend),
             equilibrium |-> lerp(a.equilibrium, b.equilibrium, blend),
             swirl |-> lerp(a.swirl, b.swirl, blend),
             bloom |-> lerp(a.bloom, b.bloom, blend),
             depthRange |-> lerp(a.depthRange, b.depthRange, blend)]

-----------------------------------------------------------------------------
(* Particle field *)

Centi(p) == TDiv(p, 10000)

DampNone(v, damping) == v

\* v * damping, truncated toward zero
Damp(v, damping) ==
    LET loss == 1000000 - damping
        a == MulDiv(Abs(v), loss, 1000)
        r == ((Abs(v) % 1000) * loss) % 1000
        cut == IF a % 1000 = 0 /\ r = 0 THEN a \div 1000 ELSE a \div 1000 + 1
    IN Sign(v) * (Abs(v) - cut)

ClampAxisElastic(p, v, bound) ==
    LET hi == IF p > bound THEN <<bound, TDiv(v * (-13), 10)>> ELSE <<p, v>>
    IN IF hi[1] < -bound THEN <<-bound, TDiv(hi[2] * (-13), 10)>> ELSE hi

\* the boundary clamp of one axis: <<position, velocity>>
ClampAxis(p, v, bound) ==
    LET hi == IF p > bound THEN <<bound, TDiv(v * (-3), 10)>> ELSE <<p, v>>
    IN IF hi[1] < -bound THEN <<-bound, TDiv(hi[2] * (-3), 10)>> ELSE hi

\* dt in thirds of a millisecond, the unit in which 1/60 s is a whole number
Thirds(ms) == 3 * ms

\* dt = 1/60 s, in thirds of a millisecond
Sixtieth == 50

\* One particle through the loop body of updateParticles: <<position, velocity>>.
\* m: active mode, dt3: dt in ms/3, mf: signed mouse force, mw: mouseWorld,
\* d: drift draws
StepParticle(pos, vel, m, dt3, mf, mw, d) ==
    LET cx == Centi(pos[1])
        cy == Centi(pos[2])
        cz == Centi(pos[3])
        \* center pull with equilibrium
        centerDist == Sqrt(cx * cx + cy * cy + cz * cz) + 10
        pullForce == TDiv(m.centerPull * (centerDist - m.equilibrium), 100)
        vx1 == vel[1] - TDiv(cx * pullForce, centerDist)
        vy1 == vel[2] - TDiv(cy * pullForce, centerDist)
        vz1 == vel[3] - TDiv(TDiv(cz * pullForce, centerDist) * 3, 10)
        \* mouse gravity
        dx == mw[1] - cx
        dy == mw[2] - cy
        dz == mw[3] - cz
        distSq == (dx * dx + dy * dy + dz * dz + 40000) \div 100
        pull(delta) == SMulDiv(SMulDiv(delta * mf, dt3, 3), 10, distSq)
        vx2 == IF mf # 0 THEN vx1 + pull(dx) ELSE vx1
        vy2 == IF mf # 0 THEN vy1 + pull(dy) ELSE vy1
        vz2 == IF mf # 0 THEN vz1 + TDiv(pull(dz) * 2, 10) ELSE vz1
        \* swirl
        dist == Sqrt(cx * cx + cz * cz) + 50
        vx3 == IF m.swirl > 0 THEN vx2 + TDiv((-cz) * m.swirl, dist) ELSE vx2
        vz3 == IF m.swirl > 0 THEN vz2 + TDiv(cx * m.swirl, dist) ELSE vz2
        \* random drift
        vx4 == vx3 + TDiv((d[1] - 500) * m.drift, 1000)
        vy4 == vy2 + TDiv((d[2] - 500) * m.drift, 1000)
        vz4 == vz3 + TDiv((d[3] - 500) * m.drift * 3, 10000)
        \* damping
        vx5 == Damp(vx4, m.damping)
        vy5 == Damp(vy4, m.damping)
        vz5 == Damp(vz4, m.damping)
        \* integrate
        px == pos[1] + SMulDiv(vx5, dt3, 50)
        py == pos[2] + SMulDiv(vy5, dt3, 50)
        pz == pos[3] + SMulDiv(vz5, dt3, 50)
        \* soft boundary
        bx == ClampAxis(px, vx5, BOUNDS)
        by == ClampAxis(py, vy5, BOUNDS)
        bz == ClampAxis(pz, vz5, m.depthRange * 10000)
    IN << <<bx[1], by[1], bz[1]>>, <<bx[2], by[2], bz[2]>> >>

\* What the Float32Array store keeps of v * damping for a velocity component of
\* n float32 subnormal steps (n * 2^-149, |n| < 2148): the product rounded to
\* the nearest step, ties to the even one.
FroundDamp(n, damping) ==
    LET a == Abs(n) * damping
        q == a \div 1000000
        r == a % 1000000
    IN Sign(n) * (IF r > 500000 \/ (r = 500000 /\ q % 2 = 1) THEN q + 1 ELSE q)

\* The loop body on a particle inside the bounds whose velocity is counted in
\* float32 subnormal steps, for force parameters that are all zero: the pull
\* and the drift add a zero, mouse and swirl are skipped, v * damping is
\* rounded by the store, and v * dt * 60 < 2^-125 leaves the position where it
\* is on the 1e-6 grid.
StepParticleUlp(pos, vel, m) ==
    <<pos, [k \in 1 .. 3 |-> FroundDamp(vel[k], m.damping)]>>

\* mf of updateParticles
MouseForce(m) ==
    IF mouseDown THEN m.mouseForce * (IF repelling THEN -2 ELSE 1)
    ELSE IF mouseActive THEN TDiv(m.mouseForce, 4)
    ELSE 0

\* current += (target - current) * rate, rate = dt * 2.5
Converge(cur, tgt, dt) == cur + TDiv((tgt - cur) * dt, 400)

TickCap == 2 + CeilTwoOverDt[25]

AdvanceBlendUnclamped(blend, dt) == DAdd(blend, HalfStep(dt))

\* Math.min(modeBlend + dt * 0.5, 1)
AdvanceBlend(blend, dt) == DMin(DAdd(blend, HalfStep(dt)), DOne)

\* updateParticles(dt): dd[i] are the drift draws of particle i
UpdateParticles(dt, dd) ==
    /\ lastOp' = Op("tick", dt, FALSE, FALSE)
    /\ UNCHANGED <<colorOverride, mouseVars, alphas, targetVars, soundDesired,
                   soundVars, hostVars, targetMode, nOps>>
    /\ IF ~AtRest(modeBlend) /\ Undefined(targetMode)
       THEN \* getActiveMode reads a field of undefined
            /\ threw' = TRUE
            /\ UNCHANGED <<fieldVars, colors, sizes, modeBlend, currentMode, flight>>
       ELSE LET m == GetActiveMode(currentMode, targetMode, modeBlend)
                mf == MouseForce(m)
                step == [i \in Particles |->
                    StepParticle(positions[i], velocities[i], m, Thirds(dt), mf,
                                 mouseWorld, dd[i])]
            IN /\ positions' = [i \in Particles |-> step[i][1]]
               /\ velocities' = [i \in Particles |-> step[i][2]]
               /\ flight' = [flight EXCEPT !.ticks = Min(@ + 1, TickCap)]
               /\ UNCHANGED threw
               /\ IF ~AtRest(modeBlend)
                  THEN /\ modeBlend' = AdvanceBlend(modeBlend, dt)
                       /\ currentMode' = IF AtRest(modeBlend') THEN targetMode
                                         ELSE currentMode
                       /\ colors' = [i \in Particles |-> [k \in 1 .. 3 |->
                              Converge(colors[i][k], targetColors[i][k], dt)]]
                       /\ sizes' = [i \in Particles |->
                              Converge(sizes[i], targetSizes[i], dt)]
                  ELSE UNCHANGED <<modeBlend, currentMode, colors, sizes>>

\* animate(): one frame
Tick(dd) == UpdateParticles(ClampDt(frameDt), dd)

\* a mode whose mouse force, drift, centre pull and swirl are zero
Still(m) ==
    [m EXCEPT !.mouseForce = 0, !.drift = 0, !.centerPull = 0, !.swirl = 0]

\* the particle loop of updateParticles alone, under the parameters m, dt3 in
\* ms/3; the observer keeps the field as it was before the step, and the draws
StepOnly(m, dt3, dd) ==
    LET step == [i \in Particles |->
            IF grid = "ulp"
            THEN StepParticleUlp(positions[i], velocities[i], m)
            ELSE StepParticle(positions[i], velocities[i], m, dt3, MouseForce(m),
                              mouseWorld, dd[i])]
    IN /\ positions' = [i \in Particles |-> step[i][1]]
       /\ velocities' = [i \in Particles |-> step[i][2]]
       /\ lastOp' = Op("step", <<positions, velocities, dd>>, FALSE, FALSE)
       /\ flight' = [flight EXCEPT !.ticks = Min(@ + 1, TickCap)]
       /\ UNCHANGED <<blendVars, colorOverride, mouseVars, lookVars, targetVars,
                      soundDesired, soundVars, hostVars, threw, nOps>>

\* the velocity burstAt leaves one particle with; u: the depth jitter draw
BurstParticle(pos, vel, wx, wy, push, u) ==
    LET force == IF push THEN -3 ELSE 3
        radiusSq == 1200 * 1200
        dx == Centi(pos[1]) - wx
        dy == Centi(pos[2]) - wy
        distSq == dx * dx + dy * dy
        strength == TDiv((radiusSq - distSq) * 1000, radiusSq) * force
        dist == Sqrt(distSq) + 50
    IN IF distSq < radiusSq
       THEN << vel[1] + SMulDiv(dx * strength, 1000, dist),
               vel[2] + SMulDiv(dy * strength, 1000, dist),
               vel[3] + TDiv((u - 500) * Abs(strength) * 3, 10) >>
       ELSE vel

\* burstAt(wx, wy, push) on the engine a: jd[i] is the jitter draw of particle i
BurstAt(a, wx, wy, push, jd) ==
    /\ velocities' = [i \in Particles |->
           BurstParticle(positions[i], velocities[i], wx, wy, push, jd[i])]
    /\ cues' = AudioTriggerBurst(a, cues)

-----------------------------------------------------------------------------
(* UI handlers *)

\* what AmbientSound.toggle() returns
AudioToggleReturn(a) == IF ~a.ctx THEN TRUE ELSE ~a.enabled

EnsureAudioAlways(a) == IF ~a.enabled THEN AudioToggle(a, audioClock) ELSE a

\* ensureAudio(): the engine after the call
EnsureAudio(a) == IF ~a.enabled /\ soundDesired THEN AudioToggle(a, audioClock) ELSE a

\* soundToggle click handler
SoundToggleClick ==
    /\ nOps' = nOps + 1
    /\ UNCHANGED <<blendVars, colorOverride, mouseVars, fieldVars, lookVars,
                   targetVars, audioClock, cues, hostVars, threw, flight>>
    /\ IF ~audio.enabled /\ soundDesired
       THEN /\ soundDesired' = FALSE
            /\ UNCHANGED audio
            /\ lastOp' = Op("soundClick", 0, FALSE, FALSE)
       ELSE IF ~audio.enabled /\ ~soundDesired
       THEN /\ audio' = AudioToggle(audio, audioClock)
            /\ soundDesired' = TRUE
            /\ lastOp' = Op("soundClick", 0, TRUE, AudioToggleReturn(audio))
       ELSE /\ audio' = AudioToggle(audio, audioClock)
            /\ soundDesired' = AudioToggleReturn(audio)
            /\ lastOp' = Op("soundClick", 0, TRUE, AudioToggleReturn(audio))

\* mousedown handler; shift: e.button === 2 || e.shiftKey
MouseDown(shift, jd) ==
    /\ nOps' = nOps + 1
    /\ lastOp' = Op("mouseDown", 0, (~audio.enabled /\ soundDesired), AudioToggleReturn(audio))
    /\ audio' = EnsureAudio(audio)
    /\ mouseDown' = TRUE
    /\ repelling' = (repelling \/ shift)
    /\ IF mouseActive
       THEN BurstAt(audio', mouseWorld[1], mouseWorld[2], repelling', jd)
       ELSE UNCHANGED <<velocities, cues>>
    /\ UNCHANGED <<blendVars, colorOverride, mouseActive, mouseWorld, positions,
                   lookVars, targetVars, soundDesired, audioClock, hostVars, threw,
                   flight>>

\* mouseup handler
MouseUp ==
    /\ nOps' = nOps + 1
    /\ lastOp' = Op("mouseUp", 0, FALSE, FALSE)
    /\ mouseDown' = FALSE
    /\ repelling' = FALSE
    /\ UNCHANGED <<blendVars, colorOverride, mouseActive, mouseWorld, fieldVars,
                   lookVars, targetVars, soundDesired, soundVars, hostVars, threw,
                   flight>>

\* mousemove handler; w: where the pointer ray meets the interaction plane
MouseMove(w) ==
    /\ nOps' = nOps + 1
    /\ lastOp' = Op("mouseMove", 0, FALSE, FALSE)
    /\ mouseActive' = TRUE
    /\ mouseWorld' = w
    /\ UNCHANGED <<blendVars, colorOverride, mouseDown, repelling, fieldVars,
                   lookVars, targetVars, soundDesired, soundVars, hostVars, threw,
                   flight>>

\* touchstart handler
TouchStart(w, jd) ==
    /\ nOps' = nOps + 1
    /\ lastOp' = Op("touchStart", 0, (~audio.enabled /\ soundDesired), AudioToggleReturn(audio))
    /\ audio' = EnsureAudio(audio)
    /\ mouseDown' = TRUE
    /\ mouseActive' = TRUE
    /\ mouseWorld' = w
    /\ BurstAt(audio', w[1], w[2], FALSE, jd)
    /\ UNCHANGED <<blendVars, colorOverride, repelling, positions, lookVars,
                   targetVars, soundDesired, audioClock, hostVars, threw, flight>>

\* the audio clock runs on
ClockAdvance ==
    /\ audioClock < MaxClock
    /\ audioClock' = audioClock + 1
    /\ lastOp' = Op("clock", 0, FALSE, FALSE)
    /\ UNCHANGED <<blendVars, colorOverride, mouseVars, fieldVars, lookVars,
                   targetVars, soundDesired, audio, cues, hostVars, threw, flight,
                   nOps>>

-----------------------------------------------------------------------------
(* Initial states *)

QuietStart ==
    [theta |-> 0, phi |-> 500, r |-> 0, z |-> 500, vx |-> 500, vy |-> 500,
     vz |-> 500, look |-> <<500, 500, 500, 500>>, alpha |-> 500]

FieldStarts ==
    {[theta |-> t, phi |-> 500, r |-> r, z |-> z, vx |-> v, vy |-> 500,
      vz |-> v, look |-> <<500, 500, 500, 500>>, alpha |-> 500] :
        t \in {0}, r \in {0, 999}, z \in {500, 999}, v \in {999}}

\* the module body of main.ts up to the first frame; sd[i]: draws of particle i
InitWith(Starts) ==
    /\ currentMode = DEFAULT_MODE
    /\ targetMode = DEFAULT_MODE
    /\ modeBlend = DOne
    /\ colorOverride = NoOverride
    /\ mouseDown = FALSE
    /\ mouseActive = FALSE
    /\ repelling = FALSE
    /\ mouseWorld = <<0, 0, 0>>
    /\ \E sd \in [Particles -> Starts] :
        /\ positions = [i \in Particles |-> RandomPosition(MODES[DEFAULT_MODE], sd[i])]
        /\ velocities = [i \in Particles |-> RandomVelocity(sd[i])]
        /\ colors = [i \in Particles |->
               LET hsl == SampleHSL(MODES[DEFAULT_MODE], NoOverride, sd[i].look)
               IN SetHSL(hsl[1], hsl[2], hsl[3])]
        /\ sizes = [i \in Particles |->
               Sample(MODES[DEFAULT_MODE].sizeRange, sd[i].look[4])]
        /\ alphas = [i \in Particles |-> 250 + TDiv(sd[i].alpha * 750, 1000)]
    /\ targetColors = [i \in Particles |-> <<0, 0, 0>>]
    /\ targetSizes = [i \in Particles |-> 0]
    /\ sampledHSL = [i \in Particles |-> <<0, 0, 0>>]
    /\ soundDesired = TRUE
    /\ audio = NewAudio
    /\ audioClock = 0
    /\ cues = NoCues
    /\ frameDt \in Dts
    /\ grid = "micro"
    /\ threw = FALSE
    /\ lastOp = [op |-> "init", arg |-> 0, toggled |-> FALSE, ret |-> FALSE,
                 was |-> [current |-> DEFAULT_MODE, target |-> DEFAULT_MODE,
                          blend |-> DOne],
                 handed |-> [current |-> DEFAULT_MODE, target |-> DEFAULT_MODE,
                             blend |-> DOne]]
    /\ flight = [by |-> "none", ticks |-> 0]
    /\ nOps = 0

Init == InitWith({QuietStart})

\* a field at rest in mode c whose one particle is at pos with velocity vel,
\* the velocity counted on the grid g
Resting(c, g, pos, vel) ==
    /\ currentMode = c
    /\ targetMode = c
    /\ modeBlend = DOne
    /\ colorOverride = NoOverride
    /\ mouseDown = FALSE
    /\ mouseActive = FALSE
    /\ repelling = FALSE
    /\ mouseWorld = <<0, 0, 0>>
    /\ positions = [i \in Particles |-> pos]
    /\ velocities = [i \in Particles |-> vel]
    /\ colors = [i \in Particles |->
           LET hsl == SampleHSL(MODES[c], NoOverride, QuietStart.look)
           IN SetHSL(hsl[1], hsl[2], hsl[3])]
    /\ sizes = [i \in Particles |-> Sample(MODES[c].sizeRange, Centre)]
    /\ alphas = [i \in Particles |-> 625]
    /\ targetColors = [i \in Particles |-> <<0, 0, 0>>]
    /\ targetSizes = [i \in Particles |-> 0]
    /\ sampledHSL = [i \in Particles |-> <<0, 0, 0>>]
    /\ soundDesired = TRUE
    /\ audio = NewAudio
    /\ audioClock = 0
    /\ cues = NoCues
    /\ frameDt \in Dts
    /\ grid = g
    /\ threw = FALSE
    /\ lastOp = [op |-> "init", arg |-> 0, toggled |-> FALSE, ret |-> FALSE,
                 was |-> [current |-> c, target |-> c, blend |-> DOne],
                 handed |-> [current |-> c, target |-> c, blend |-> DOne]]
    /\ flight = [by |-> "none", ticks |-> 0]
    /\ nOps = 0

\* velocities of a decaying particle, on either grid
DecayVelocities ==
    [micro |-> {<<150000, 0, 50000>>, <<-150000, 300, -50000>>, <<0, 0, 0>>},
     ulp |-> {<<2000, -130, 1>>, <<124, 0, 0>>, <<0, 0, 0>>}]

\* the void at rest, one particle at (30, 0, 0) with velocity (0, 0, 0)
InitPull == Resting(4, "micro", <<30000000, 0, 0>>, <<0, 0, 0>>)

\* a particle close to the lateral and the depth bound of the settled mode c
InitDecay ==
    \E c \in ModeIndex, g \in {"micro", "ulp"} :
        \E vel \in DecayVelocities[g] :
            Resting(c, g, <<39900000, 0, MODES[c].depthRange * 10000 - 50000>>, vel)

InitField == InitWith(FieldStarts)

-----------------------------------------------------------------------------
(* Inputs *)

\* mode indices a caller may pass: presets, and one index off either end
ModeInputs == {-1, 0, 3, 4, 5}

\* override hues of the swatches and the custom colour input
HueInputs == {NoOverride, 30, 500, 970}

QuietTargets == [Particles -> Draws4({Centre})]
FreeTargets == [Particles -> Draws4(RandSet)]
QuietDrift == [Particles -> {<<Centre, Centre, Centre>>}]
FreeDrift == [Particles -> {<<u, u, u>> : u \in {0, 999}}]
QuietJitter == [Particles -> {Centre}]
FreeJitter == [Particles -> {0, 999}]
PullDrift == [Particles -> {<<u, u, u>> : u \in RandSet}]

Origin == <<0, 0, 0>>
PointerInputs == {Origin, <<3400, 0, 0>>}

-----------------------------------------------------------------------------
(* Specifications *)

\* Spec: the mode blender at a steady frame rate. The particle rests at the
\* origin and every draw is the centre draw, so the field stays put while the
\* blend state, the targets and the appearance run freely.
Next ==
    \/ nOps < MaxOps /\ \E i \in ModeInputs, td \in QuietTargets : SetMode(i, td)
    \/ nOps < MaxOps /\ \E h \in {NoOverride, 970}, td \in QuietTargets :
           TriggerColorTransition(h, td)
    \/ \E dd \in QuietDrift : Tick(dd)

Spec == Init /\ [][Next]_vars

\* SpecAny: Spec, and a mode button whose data-mode does not parse
NextAny ==
    \/ Next
    \/ nOps < MaxOps /\ \E td \in QuietTargets : SetMode(NaN, td)

SpecAny == Init /\ [][NextAny]_vars

\* SpecColor: target sampling with free draws and every override, a few ticks
\* after each request
NextColor ==
    \/ nOps < MaxOps /\ \E i \in ModeInputs, td \in FreeTargets : SetMode(i, td)
    \/ nOps < MaxOps /\ \E h \in HueInputs, td \in FreeTargets :
           TriggerColorTransition(h, td)
    \/ flight.ticks < MaxFieldTicks /\ \E dd \in QuietDrift : Tick(dd)

SpecColor == Init /\ [][NextColor]_vars

\* SpecField: the particle field with free starts, drift draws, pointer and
\* bursts, a few ticks after each request
NextField ==
    \/ nOps < MaxOps /\ \E i \in ModeInputs, td \in QuietTargets : SetMode(i, td)
    \/ nOps < MaxOps /\ \E td \in QuietTargets : TriggerColorTransition(NoOverride, td)
    \/ nOps < MaxOps /\ \E w \in PointerInputs : MouseMove(w)
    \/ nOps < MaxOps /\ \E sh \in BOOLEAN, jd \in FreeJitter : MouseDown(sh, jd)
    \/ nOps < MaxOps /\ MouseUp
    \/ nOps < MaxOps /\ \E w \in PointerInputs, jd \in FreeJitter : TouchStart(w, jd)
    \/ flight.ticks < MaxFieldTicks /\ \E dd \in FreeDrift : Tick(dd)

SpecField == InitField /\ [][NextField]_vars

\* SpecSound: the sound engine and the handlers that reach it, on the audio
\* clock; no frame is rendered
NextSound ==
    \/ nOps < MaxSoundOps /\ \E i \in ModeInputs, td \in QuietTargets : SetMode(i, td)
    \/ nOps < MaxSoundOps /\ \E td \in QuietTargets :
           TriggerColorTransition(NoOverride, td)
    \/ nOps < MaxSoundOps /\ SoundToggleClick
    \/ nOps < MaxSoundOps /\ MouseMove(Origin)
    \/ nOps < MaxSoundOps /\ \E jd \in QuietJitter : MouseDown(FALSE, jd)
    \/ nOps < MaxSoundOps /\ MouseUp
    \/ nOps < MaxSoundOps /\ \E jd \in QuietJitter : TouchStart(Origin, jd)
    \/ ClockAdvance

SpecSound == Init /\ [][NextSound]_vars

\* SpecBuild: Spec, and the first gestures that build the sound engine, at rest
\* or with a transition in flight
NextBuild ==
    \/ Next
    \/ nOps < MaxOps /\ SoundToggleClick
    \/ nOps < MaxOps /\ \E jd \in QuietJitter : MouseDown(FALSE, jd)

SpecBuild == Init /\ [][NextBuild]_vars

\* SpecDecay: the particle step under the settled mode with its forces set to
\* zero, from a moving particle near the bounds, on either velocity grid
NextDecay ==
    \E dd \in FreeDrift :
        StepOnly(Still(MODES[currentMode]), Thirds(ClampDt(frameDt)), dd)

SpecDecay == InitDecay /\ [][NextDecay]_vars

\* SpecPull: steps of 1/60 s in the void, pointer away, from the particle at
\* (30, 0, 0) at rest
NextPull ==
    flight.ticks < MaxPullSteps /\
        \E dd \in PullDrift : StepOnly(MODES[currentMode], Sixtieth, dd)

SpecPull == InitPull /\ [][NextPull]_vars

-----------------------------------------------------------------------------
(* Observations shared by the properties *)

\* the blend state names defined modes, so getActiveMode() returns
Blendable == AtRest(modeBlend) \/ ~Undefined(targetMode)

\* the state is one the renderer reads: composer.render() follows a full tick
Rendered == lastOp.op \in {"init", "tick"} /\ Blendable

ActiveMode == GetActiveMode(currentMode, targetMode, modeBlend)

InFlight == ~AtRest(modeBlend)

-----------------------------------------------------------------------------
(* C1 *)

\* C1: in every state the renderer reads, every particle lies within
\* [-BOUNDS, BOUNDS] on x and y and within the depthRange of the mode
\* parameters active in that state on z.
C1_PositionsWithinActiveBounds ==
    Rendered =>
        \A i \in Particles :
            /\ Abs(positions[i][1]) <= BOUNDS
            /\ Abs(positions[i][2]) <= BOUNDS
            /\ Abs(positions[i][3]) <= ActiveMode.depthRange * 10000

-----------------------------------------------------------------------------
(* C2 *)

\* a transition started by setMode and not superseded since
Transition == flight.by = "setMode"

IsDouble01(b) ==
    /\ b[1] \in 0 .. Limb /\ b[2] \in 0 .. (Limb - 1) /\ b[3] \in 0 .. (Limb - 1)
    /\ DLeq(b, DOne)

\* one tick of a transition: the fraction does not decrease, and the settled
\* index becomes the target exactly on the tick that brings the fraction to 1
TransitionTick ==
    (Transition /\ InFlight /\ lastOp'.op = "tick") =>
        /\ DLeq(modeBlend, modeBlend')
        /\ IF modeBlend' = DOne THEN currentMode' = targetMode
           ELSE currentMode' = currentMode

\* the fraction is in [0,1] and is exactly 1 once n ticks of the transition ran
CompleteWithin(n) ==
    /\ IsDouble01(modeBlend)
    /\ (Transition /\ flight.ticks >= n) => modeBlend = DOne

\* C2 as stated: within one uninterrupted transition the fraction never
\* decreases, stays in [0,1], reaches exactly 1 within ceil(2/dt) ticks, and the
\* settled index becomes the target on the tick where it reaches 1.
C2_Original ==
    /\ [][TransitionTick]_vars
    /\ [](CompleteWithin(CeilTwoOverDt[frameDt]))

\* C2 amended: as C2, but the fraction reaches exactly 1 within
\* ceil(2/dt) + 1 ticks: the double sum of dt * 0.5 may be one rounding short
\* of 1 after ceil(2/dt) additions.
C2_BlendCompletes ==
    /\ [][TransitionTick]_vars
    /\ [](CompleteWithin(CeilTwoOverDt[frameDt] + 1))

\* a transition to another mode that needed the extra tick has just completed
C2_Witness ==
    /\ Transition /\ lastOp.op = "tick" /\ modeBlend = DOne
    /\ flight.ticks = CeilTwoOverDt[frameDt] + 1
    /\ currentMode = targetMode /\ currentMode # DEFAULT_MODE

-----------------------------------------------------------------------------
(* C3 *)

\* the last handler was setMode with a preset index, called in mid-flight
Superseding ==
    /\ lastOp.op = "setMode" /\ lastOp.arg \in ModeIndex
    /\ DLess(DZero, lastOp.was.blend) /\ DLess(lastOp.was.blend, DOne)

LastWriterWins ==
    Superseding =>
        /\ modeBlend = DZero
        /\ targetMode = lastOp.arg
        /\ currentMode = lastOp.was.current

\* a tick keeps the target, settles on nothing but the target, and starts
\* nothing once the blend is at rest
NothingResumed ==
    lastOp'.op = "tick" =>
        /\ targetMode' = targetMode
        /\ currentMode' \in {currentMode, targetMode}
        /\ AtRest(modeBlend) => UNCHANGED blendVars

\* C3: setMode with a valid index while the fraction is strictly between 0 and
\* 1 sets the fraction to 0 and the target to the new index, whatever the
\* previous target and fraction; no tick afterwards brings back the superseded
\* transition.
C3_LastWriterWins ==
    /\ [](LastWriterWins)
    /\ [][NothingResumed]_vars

\* a transition in mid-flight has just been superseded by one to another target
C3_Witness ==
    /\ Superseding
    /\ lastOp.arg # lastOp.was.target
    /\ lastOp.was.target # lastOp.was.current
    /\ modeBlend = DZero /\ targetMode = lastOp.arg

-----------------------------------------------------------------------------
(* C4 *)

\* C4: setMode(i) with i the settled index and the blend at rest changes
\* neither the fraction, the target index, the settled index, any particle's
\* target color or target size, and asks the sound engine for no cue and no
\* retune.
C4_NoOpAtRest ==
    [][(lastOp'.op = "setMode" /\ lastOp'.arg = currentMode /\ AtRest(modeBlend))
        => UNCHANGED <<blendVars, targetColors, targetSizes, audio, cues>>]_vars

\* setMode of the settled mode was called at rest with the engine audible
C4_Witness ==
    /\ lastOp.op = "setMode"
    /\ lastOp.arg = lastOp.was.current /\ AtRest(lastOp.was.blend)
    /\ audio.ctx /\ audio.enabled
    /\ AtRest(modeBlend)

-----------------------------------------------------------------------------
(* C5 *)

\* C5: setMode with a value that is not an index of the preset table leaves
\* the settled index, the target index, the fraction, the particle targets and
\* the sound engine's mode unchanged and raises no error.
C5_InvalidIgnored ==
    [][(lastOp'.op = "setMode" /\ lastOp'.arg \notin ModeIndex)
        => /\ UNCHANGED <<blendVars, targetColors, targetSizes, threw>>
           /\ audio'.currentMode = audio.currentMode]_vars

-----------------------------------------------------------------------------
(* C6 *)

\* the recolor handler: the settled index stays; at rest the fraction becomes
\* 0.5 and the target the settled index
RecolorStep ==
    lastOp'.op = "recolor" =>
        /\ currentMode' = currentMode
        /\ AtRest(modeBlend) => (modeBlend' = DHalf /\ targetMode' = currentMode)

\* a tick of the re-blend a recolor started keeps the settled index
ReblendTick ==
    (flight.by = "recolor" /\ lastOp'.op = "tick") => currentMode' = currentMode

\* C6: a recolor never changes which mode is settled: at rest it sets the
\* fraction to 0.5 and the target to the settled mode, and the settled index is
\* the same once the re-blend it started has run to completion.
C6_RecolorKeepsSettled ==
    [][RecolorStep /\ ReblendTick]_vars

\* the re-blend a recolor started from a settled mode other than the default
\* has just completed
C6_Witness ==
    /\ flight.by = "recolor" /\ flight.ticks > 0
    /\ lastOp.op = "tick" /\ ~AtRest(lastOp.was.blend) /\ AtRest(modeBlend)
    /\ currentMode # DEFAULT_MODE

-----------------------------------------------------------------------------
(* C7 *)

\* the distance from hue h to the override hue around the colour circle
HueDistance(h, override) ==
    Min((h - override) % 1000, (override - h) % 1000)

\* C7: while an override hue is active every particle's sampled color target
\* has its hue within 0.06 of the override (mod 1) and saturation >= 0.5,
\* whichever mode it was sampled for and whether setMode or a recolor sampled it.
C7_OverrideBand ==
    (colorOverride # NoOverride /\ lastOp.op # "init") =>
        \A i \in Particles :
            /\ HueDistance(Normalised(sampledHSL[i])[1], colorOverride) <= 60
            /\ Normalised(sampledHSL[i])[2] >= 500
            /\ targetColors[i] =
                   SetHSL(sampledHSL[i][1], sampledHSL[i][2], sampledHSL[i][3])

\* a transition sampled targets for the void under an override near the end of
\* the hue circle, and the sampled hue wrapped past 1
C7_Witness ==
    /\ colorOverride = 970 /\ lastOp.op = "setMode" /\ targetMode = 4
    /\ modeBlend = DZero
    /\ sampledHSL[1][1] >= 1000
    /\ Normalised(sampledHSL[1])[1] < 60

-----------------------------------------------------------------------------
(* C8 *)

\* built or not, the graph holds what one init() leaves
BuiltOnce ==
    /\ audio.builds <= 1
    /\ audio.ctx <=> audio.builds = 1
    /\ Len(audio.drones) = IF audio.ctx THEN 3 ELSE 0
    /\ ~audio.ctx => ~audio.enabled

\* toggle(): the first builds, every later one only flips; it returns the
\* enabled state it leaves
ToggleStep ==
    lastOp'.toggled =>
        /\ lastOp'.ret = audio'.enabled
        /\ ~audio.ctx => (audio'.ctx /\ audio'.enabled)
        /\ audio.ctx =>
               /\ audio'.enabled = ~audio.enabled
               /\ audio'.drones = audio.drones
               /\ audio'.builds = audio.builds

\* nothing but toggle() builds the graph or changes the enabled state
OnlyToggle ==
    ~lastOp'.toggled =>
        /\ audio'.ctx = audio.ctx
        /\ audio'.enabled = audio.enabled
        /\ Len(audio'.drones) = Len(audio.drones)

\* C8: the audio graph is built exactly once, by the first toggle(); every
\* later toggle() only flips enabled, keeping the three voices, so that two
\* toggles in a row restore the enabled state; toggle() returns the enabled
\* state resulting from the call.
C8_BuiltOnce ==
    /\ [](BuiltOnce)
    /\ [][ToggleStep /\ OnlyToggle]_vars

\* the graph was built, muted and has just been switched on again
C8_Witness ==
    /\ lastOp.toggled /\ lastOp.ret /\ nOps >= 3
    /\ audio.ctx /\ audio.enabled /\ audio.builds = 1 /\ Len(audio.drones) = 3
    /\ audio.master = 80

-----------------------------------------------------------------------------
(* C9 *)

Audible(a) == a.ctx /\ a.enabled

\* all of the engine but the mode index it was told last
Graph(a) == [a EXCEPT !.currentMode = 4]

\* setMode and recolor reach the engine as the handler found it
CueFromBlender ==
    (lastOp'.op \in {"setMode", "recolor"} /\ ~Audible(audio)) =>
        cues' = cues /\ Graph(audio') = Graph(audio) /\ threw' = threw

\* a press reaches the engine after ensureAudio() had its chance to switch it on
CueFromPointer ==
    (lastOp'.op \in {"mouseDown", "touchStart"} /\ ~Audible(audio')) =>
        cues' = cues /\ audio' = audio /\ threw' = threw

\* C9: while the graph is not built, or built but muted, the mode-change, the
\* burst and the recolor cue triggers schedule no cue, build no graph and raise
\* no error.
C9_SilentCuesAreNoOps ==
    [][CueFromBlender /\ CueFromPointer]_vars

\* a burst was triggered on a built and muted engine
C9_Witness ==
    /\ lastOp.op = "mouseDown" /\ mouseActive
    /\ audio.ctx /\ ~audio.enabled
    /\ cues.burst = 1

-----------------------------------------------------------------------------
(* C10 *)

Between(a, x, b) == (a <= x /\ x <= b) \/ (b <= x /\ x <= a)

\* the frequency voice i is scheduled to sound at time t
Frequency(i, t) == ValueAt(audio.drones[i], t)

\* C10: after a retune every voice reaches the new mode's frequency 3 s after
\* the request, and from the request on moves from the frequency it sounded at
\* towards the new one without a jump, a reversal or an overshoot, also when
\* the request comes while an earlier ramp is in progress.
C10_RetuneMonotone ==
    audio.retune.at >= 0 =>
        \A i \in 1 .. Len(audio.drones) :
            LET t0 == audio.retune.at
                from == audio.retune.prior[i]
                to == MODE_FREQS[audio.retune.to + 1][i]
            IN /\ Frequency(i, t0 + RampLen) = to
               /\ Frequency(i, t0) = from
               /\ \A t \in t0 .. (t0 + RampLen) : Between(from, Frequency(i, t), to)
               /\ \A t \in t0 .. (t0 + RampLen - 1) :
                      Abs(to - Frequency(i, t + 1)) <= Abs(to - Frequency(i, t))

-----------------------------------------------------------------------------
(* C11 *)

\* C11: on a built graph, whenever the engine is active the frequency each
\* tonal voice is at or is scheduled to reach is the one of the mode the
\* engine was told last, whatever toggles and mode changes came before: a mode
\* change made while muted is not lost on resume.
C11_ResumeKeepsTuning ==
    (audio.ctx /\ audio.enabled) =>
        \A i \in 1 .. Len(audio.drones) :
            FinalValue(audio.drones[i]) = MODE_FREQS[audio.currentMode + 1][i]

-----------------------------------------------------------------------------
(* C12 *)

\* the last step ran under zero forces; the field before it
Stepped == lastOp.op = "step"
VelocityBefore(i) == lastOp.arg[2][i]
PositionBefore(i) == lastOp.arg[1][i]

\* w is strictly shorter than v: no component grew and one shrank
Shorter(w, v) ==
    /\ \A k \in 1 .. 3 : Abs(w[k]) <= Abs(v[k])
    /\ \E k \in 1 .. 3 : Abs(w[k]) < Abs(v[k])

\* a particle at zero velocity keeps it, and keeps its position
ZeroStays(i) ==
    VelocityBefore(i) = <<0, 0, 0>> =>
        velocities[i] = <<0, 0, 0>> /\ positions[i] = PositionBefore(i)

\* C12 as stated: under zero forces the velocity magnitude of every particle
\* with non-zero velocity strictly decreases on every tick, clamp ticks
\* included; zero velocity stays zero and the position then stays put.
C12_Original ==
    Stepped =>
        \A i \in Particles :
            /\ VelocityBefore(i) # <<0, 0, 0>> =>
                   Shorter(velocities[i], VelocityBefore(i))
            /\ ZeroStays(i)

\* the magnitude from which v * damping is stored below v: any non-zero value
\* on the 1e-6 grid, 2^-142 (128 steps of 2^-149) on the float32 subnormal grid
DecayFloor == IF grid = "ulp" THEN 128 ELSE 1

\* C12 amended: under zero forces no velocity component ever grows, and every
\* component of magnitude >= 2^-142 strictly decreases on every tick, clamp
\* ticks included, so the velocity decays to below 2^-142 per component; there
\* the Float32Array store may round v * damping back to v and the decay stalls
\* short of zero. Zero velocity stays zero and the position then stays put.
C12_DecayToFloor ==
    Stepped =>
        \A i \in Particles :
            /\ \A k \in 1 .. 3 :
                   /\ Abs(velocities[i][k]) <= Abs(VelocityBefore(i)[k])
                   /\ Abs(VelocityBefore(i)[k]) >= DecayFloor =>
                          Abs(velocities[i][k]) < Abs(VelocityBefore(i)[k])
            /\ ZeroStays(i)

\* a non-zero velocity came out of a step exactly as it went in
C12_Witness ==
    /\ Stepped
    /\ velocities[1] # <<0, 0, 0>>
    /\ velocities[1] = VelocityBefore(1)

-----------------------------------------------------------------------------
(* C13 *)

\* the last step was the first one from the particle at rest at (30, 0, 0)
FirstPull ==
    /\ Stepped
    /\ PositionBefore(1) = <<30000000, 0, 0>>
    /\ VelocityBefore(1) = <<0, 0, 0>>

\* the particle is strictly closer than 30 to the origin:
\* dx^2 + y^2 + z^2 < -60 dx for dx = x - 30
InsideThirty(pos) ==
    LET dx == pos[1] - 30000000
    IN /\ dx < 0
       /\ (dx * dx + pos[2] * pos[2] + pos[3] * pos[3]) \div 60000000 < -dx

PullAtThirty == TDiv(3000 * TDiv(MODES[4].centerPull * (3010 - MODES[4].equilibrium), 100), 3010)

\* the drift term of the step's x draw: (Math.random() - 0.5) * drift
DriftTerm == TDiv((lastOp.arg[3][1][1] - 500) * MODES[4].drift, 1000)

-----------------------------------------------------------------------------
(* C14 *)

\* the field after the tick is the step of the field before it under the
\* parameters m, for some drift draws
SteppedUnder(m) ==
    \E dd \in FreeDrift :
        \A i \in Particles :
            <<positions'[i], velocities'[i]>> =
                StepParticle(positions[i], velocities[i], m,
                             Thirds(ClampDt(frameDt)), MouseForce(m), mouseWorld,
                             dd[i])

\* C14: in every tick the blend is advanced first and the particle step of
\* that tick runs under the parameters interpolated at the advanced fraction.
C14_AdvanceThenStep ==
    [][(lastOp'.op = "tick" /\ Blendable)
        => SteppedUnder(GetActiveMode(currentMode', targetMode', modeBlend'))]_vars

-----------------------------------------------------------------------------
(* C15 *)

\* the continuous force parameters of a mode record, in the order damping,
\* mouseForce, drift, centerPull, equilibrium, swirl, bloom, depthRange
Continuous(m) ==
    <<m.damping, m.mouseForce, m.drift, m.centerPull, m.equilibrium, m.swirl,
      m.bloom, m.depthRange>>

\* the parameters a tick starting from the blend state b is handed
HandedAt(b) == Continuous(GetActiveMode(b.current, b.target, b.blend))

\* how far apart the two modes blended in the state b are, parameter k
Spread(b, k) == Abs(Continuous(MODES[b.target])[k] - Continuous(MODES[b.current])[k])

BlendState == [current |-> currentMode, target |-> targetMode, blend |-> modeBlend]

\* in every state a tick would be handed settled + (target - settled) * fraction
Interpolated ==
    Blendable =>
        \A k \in 1 .. 8 :
            HandedAt(BlendState)[k] =
                lerp(Continuous(MODES[currentMode])[k],
                     Continuous(MODES[targetMode])[k], modeBlend)

\* from the previous tick to this one no parameter moves by more than the blend
\* step dt * 0.5 times the spread of the modes blended (of the wider of the two
\* pairs, if the pair changed), up to the 1/1024 grid of the interpolation
GaplessTick ==
    (lastOp'.op = "tick" /\ Blendable) =>
        \A k \in 1 .. 8 :
            LET wide == Max(Spread(lastOp.handed, k), Spread(BlendState, k))
            IN Abs(HandedAt(BlendState)[k] - HandedAt(lastOp.handed)[k])
                   <= TDiv(wide * ClampDt(frameDt), 2000) + wide \div 1024 + 2

\* C15: the continuous force parameters handed to consecutive ticks change
\* gaplessly: each is settled + (target - settled) * fraction, and from one
\* tick to the next none moves by more than the blend step times the spread of
\* the two modes blended, whatever requests come in between, superseding ones
\* included, and across the completing tick.
C15_Gapless ==
    /\ [](Interpolated)
    /\ [][GaplessTick]_vars

-----------------------------------------------------------------------------
(* C16 *)

\* every voice of the engine a sounds at the frequency of mode index and has
\* nothing else scheduled
TunedTo(a, index) ==
    /\ Len(a.drones) = 3
    /\ \A i \in 1 .. 3 :
           /\ a.drones[i].value = MODE_FREQS[index + 1][i]
           /\ FinalValue(a.drones[i]) = MODE_FREQS[index + 1][i]

\* the step builds the audio graph
Builds == ~audio.ctx /\ audio'.ctx

\* C16 as stated: the toggle() that builds the graph tunes the three voices to
\* the frequency triple of the mode settled at that moment, whatever requests
\* came before, a transition still in flight included.
C16_Original ==
    [][Builds => TunedTo(audio', currentMode')]_vars

\* C16 amended: the toggle() that builds the graph tunes the three voices to
\* the frequency triple of the mode requested last: the target of the
\* transition in flight, which is the settled mode whenever the blend is at rest.
C16_BuiltOnTarget ==
    [][Builds =>
          /\ audio'.enabled
          /\ TunedTo(audio', targetMode')
          /\ AtRest(modeBlend') => targetMode' = currentMode']_vars

\* the graph has just been built during a transition to another mode
C16_Witness ==
    /\ nOps = 2 /\ lastOp.toggled /\ lastOp.ret
    /\ audio.ctx /\ audio.builds = 1
    /\ InFlight /\ flight.by = "setMode" /\ flight.ticks > 0
    /\ targetMode # currentMode
    /\ TunedTo(audio, targetMode)

-----------------------------------------------------------------------------
(* C17 *)

\* the step is a run of setMode or of triggerColorTransition
Request ==
    /\ nOps' = nOps + 1
    /\ lastOp'.op \in {"setMode", "recolor"}

\* what a particle looks like and where it is, with the settled mode
Appearance == <<colors, sizes, alphas, positions, velocities, currentMode>>

\* C17: a mode-transition or recolor request, at rest or mid-flight, leaves
\* every particle's current color, size, alpha, position and velocity and the
\* settled mode index exactly as before the call; colors and sizes move only
\* in ticks.
C17_RequestKeepsAppearance ==
    /\ [][Request => UNCHANGED Appearance]_vars
    /\ [][(colors' # colors \/ sizes' # sizes) => lastOp'.op = "tick"]_vars

\* a transition request has just superseded one in flight, with the particle
\* moving and its color and size still away from the new targets
C17_Witness ==
    /\ Superseding
    /\ targetMode # lastOp.was.target
    /\ modeBlend = DZero
    /\ colors # targetColors /\ sizes # targetSizes
    /\ \E i \in Particles : velocities[i] # <<0, 0, 0>>

-----------------------------------------------------------------------------
(* C18 *)

\* the step is a mousedown or a touchstart on the canvas
Press ==
    /\ nOps' = nOps + 1
    /\ lastOp'.op \in {"mouseDown", "touchStart"}

\* once the graph exists the sound button shows what the engine does
DesiredIsEnabled == audio.ctx => (soundDesired = audio.enabled)

\* a press leaves the button alone, and it builds the engine only while sound
\* is desired and the engine is not enabled; otherwise the engine's graph and
\* enabled flag stay as they are
PressRespectsSwitch ==
    Press =>
        /\ soundDesired' = soundDesired
        /\ IF ~audio.enabled /\ soundDesired
           THEN ~audio.ctx /\ audio'.ctx /\ audio'.enabled
           ELSE audio'.ctx = audio.ctx /\ audio'.enabled = audio.enabled

\* C18: for every interleaving of sound-button clicks and canvas presses, once
\* the audio graph is built the desired-sound flag equals the engine's enabled
\* flag, and a press enables sound only while sound is desired and the engine is
\* not enabled: it never builds or un-mutes after the user switched sound off.
C18_PressRespectsSwitch ==
    /\ [](DesiredIsEnabled)
    /\ [][PressRespectsSwitch]_vars

\* a press on the canvas after the user muted the built engine: still muted
C18_Witness ==
    /\ lastOp.op \in {"mouseDown", "touchStart"}
    /\ ~lastOp.toggled
    /\ audio.ctx /\ audio.builds = 1
    /\ ~audio.enabled /\ ~soundDesired

====
